---- MODULE Spec2Model ----
(***************************************************************************)
(* The LectureRecorder component of ai-lecture-mate                        *)
(* (src/src/components/LectureRecorder.tsx): the recording session with    *)
(* its start / pause / resume / stop handlers, the duration timer, the     *)
(* audio-level sampling loop, the speech-recognition callbacks and the     *)
(* highlight classifier.                                                   *)
(*                                                                         *)
(* A text is a sequence of characters; a character is a one-element        *)
(* string.  A Hangul syllable is one UTF-16 code unit and is written here  *)
(* by its romanisation ("jung", "yo"), so lengths are those of the         *)
(* JavaScript strings.                                                     *)
(*                                                                         *)
(* The callbacks of a recognition engine and the analyzeAudio loop are     *)
(* closures: they read the values isRecording, isPaused, duration and      *)
(* audioLevel had in the render in which they were created.  The model     *)
(* keeps these captured values with the engine (and with a pending         *)
(* start), apart from the component's current state.                       *)
(***************************************************************************)
EXTENDS Integers, Sequences, FiniteSets, TLC

\* ---------------------------------------------------------------- bounds
MaxDuration == 2
MaxSegments == 2
MaxStarts == 2
MaxPending == 2
MaxLoad == 3
MaxResults == 2
MaxFinals == 2
MaxLectures == 2

\* ------------------------------------------------------------- characters
Whitespace == {" "}
StripPunctuation == {".", ",", "!", "?", ";", ":"}
SentenceEnd == {".", "!", "?"}
EmphasisPunctuation == {"!", "?"}

UpperCase == <<"A", "B", "C", "D", "E", "F", "G", "H", "I", "J", "K", "L", "M",
               "N", "O", "P", "Q", "R", "S", "T", "U", "V", "W", "X", "Y", "Z">>
LowerCase == <<"a", "b", "c", "d", "e", "f", "g", "h", "i", "j", "k", "l", "m",
               "n", "o", "p", "q", "r", "s", "t", "u", "v", "w", "x", "y", "z">>

HIGHLIGHT_KEYWORDS ==
  << <<"jung", "yo">>, <<"haek", "sim">>, <<"si", "heom">>, <<"kkok">>,
     <<"ban", "deu", "si">>, <<"gi", "eok">>, <<"ju", "mok">>,
     <<"po", "in", "teu">>, <<"jeong", "ri">>, <<"yo", "yak">>,
     <<"gyeol", "lon">>, <<"gang", "jo">>, <<"teuk", "hi">>, <<"ju", "ui">>,
     <<"pil", "su">>, <<"jung", "jeom">> >>

EmphasisLevel == 80
EmphasisMinLength == 10
SummaryMaxLength == 100
SummaryCutLength == 97
MinKeywordLength == 2
MaxKeywords == 5
Ellipsis == <<".", ".", ".">>

\* ------------------------------------------------------ string primitives
toLowerCase(text) ==
  [i \in 1..Len(text) |->
     IF \E j \in 1..Len(UpperCase) : UpperCase[j] = text[i]
     THEN LowerCase[CHOOSE j \in 1..Len(UpperCase) : UpperCase[j] = text[i]]
     ELSE text[i]]

\* text.substring(0, n)
substring(text, n) == SubSeq(text, 1, IF n < Len(text) THEN n ELSE Len(text))

MatchAt(text, word, i) ==
  /\ i + Len(word) - 1 <= Len(text)
  /\ \A j \in 1..Len(word) : text[i + j - 1] = word[j]

\* text.includes(word)
includes(text, word) == \E i \in 1..(Len(text) + 1) : MatchAt(text, word, i)

\* text.split(word).length - 1 for a non-empty word: the occurrences of word
\* found from the left, each search resuming after the previous match
RECURSIVE OccurrencesFrom(_, _, _)
OccurrencesFrom(text, word, i) ==
  IF i + Len(word) - 1 > Len(text) THEN 0
  ELSE IF MatchAt(text, word, i)
       THEN 1 + OccurrencesFrom(text, word, i + Len(word))
       ELSE OccurrencesFrom(text, word, i + 1)

\* text.split(/\s+/)
RECURSIVE SplitWhitespaceFrom(_, _, _, _)
SplitWhitespaceFrom(text, i, word, words) ==
  IF i > Len(text) THEN Append(words, word)
  ELSE IF text[i] \in Whitespace
       THEN IF i > 1 /\ text[i - 1] \in Whitespace
            THEN SplitWhitespaceFrom(text, i + 1, word, words)
            ELSE SplitWhitespaceFrom(text, i + 1, <<>>, Append(words, word))
       ELSE SplitWhitespaceFrom(text, i + 1, Append(word, text[i]), words)

splitWhitespace(text) == SplitWhitespaceFrom(text, 1, <<>>, <<>>)

\* text.split(/[.!?]/)
splitSentences(text) ==
  LET ends == {i \in 1..Len(text) : text[i] \in SentenceEnd}
      count == Cardinality(ends)
      End(k) == CHOOSE i \in ends : Cardinality({j \in ends : j < i}) = k - 1
  IN  [k \in 1..(count + 1) |->
         SubSeq(text, IF k = 1 THEN 1 ELSE End(k - 1) + 1,
                      IF k = count + 1 THEN Len(text) ELSE End(k) - 1)]

firstPiece_nonEmpty(text) ==
  LET pieces == splitSentences(text)
      filled == {i \in 1..Len(pieces) : pieces[i] # <<>>}
  IN  IF filled = {} THEN <<>>
      ELSE pieces[CHOOSE i \in filled : \A j \in filled : i <= j]
\* text.split(/[.!?]/)[0]
firstPiece(text) ==
  LET ends == {i \in 1..Len(text) : text[i] \in SentenceEnd}
  IN  IF ends = {} THEN text
      ELSE SubSeq(text, 1, (CHOOSE i \in ends : \A j \in ends : i <= j) - 1)

\* text.trim()
trim(text) ==
  LET solid == {i \in 1..Len(text) : text[i] \notin Whitespace}
  IN  IF solid = {} THEN <<>>
      ELSE SubSeq(text, CHOOSE i \in solid : \A j \in solid : i <= j,
                        CHOOSE i \in solid : \A j \in solid : i >= j)

\* word.replace(/[.,!?;:]/g, '')
cleanWord(word) == SelectSeq(word, LAMBDA c : c \notin StripPunctuation)

\* [...new Set(keywords)]
RECURSIVE Dedupe(_, _)
Dedupe(seq, seen) ==
  IF seq = <<>> THEN seen
  ELSE Dedupe(Tail(seq),
              IF \E i \in 1..Len(seen) : seen[i] = Head(seq)
              THEN seen ELSE Append(seen, Head(seq)))

\* ------------------------------------------------------------- classifier
followsKeyword_precedes(words, index) ==
  /\ index < Len(words)
  /\ \E k \in 1..Len(HIGHLIGHT_KEYWORDS) :
       includes(words[index + 1], HIGHLIGHT_KEYWORDS[k])
\* index > 0 && HIGHLIGHT_KEYWORDS.some(k => words[index - 1].includes(k))
followsKeyword(words, index) ==
  /\ index > 1
  /\ \E k \in 1..Len(HIGHLIGHT_KEYWORDS) :
       includes(words[index - 1], HIGHLIGHT_KEYWORDS[k])

RECURSIVE ExtractFrom(_, _, _, _)
ExtractFrom(text, words, index, keywords) ==
  IF index > Len(words) THEN keywords
  ELSE
    LET clean == cleanWord(words[index])
        follows == followsKeyword(words, index)
        afterFollow == IF follows THEN Append(keywords, clean) ELSE keywords
        afterRepeat ==
          IF OccurrencesFrom(text, clean, 1) >= 2 /\ Len(afterFollow) < MaxKeywords
          THEN Append(afterFollow, clean) ELSE afterFollow
    IN  IF Len(clean) >= MinKeywordLength
        THEN ExtractFrom(text, words, index + 1, afterRepeat)
        ELSE ExtractFrom(text, words, index + 1, keywords)

distinct_keepsAll(keywords) == keywords
\* [...new Set(keywords)]
distinct(keywords) == Dedupe(keywords, <<>>)

extractKeywords(text) ==
  substring(distinct(ExtractFrom(text, splitWhitespace(text), 1, <<>>)),
            MaxKeywords)

truncate_uncut(text) == text
truncate(text) ==
  IF Len(text) > SummaryMaxLength
  THEN substring(text, SummaryCutLength) \o Ellipsis
  ELSE text

generateSummary(text) ==
  LET firstSentence == trim(firstPiece(text))
  IN  IF Len(firstSentence) > 0 THEN truncate(firstSentence) ELSE truncate(text)

shouldHighlight_inclusive(text, level) ==
  LET lowerText == toLowerCase(text)
      hasKeyword == \E k \in 1..Len(HIGHLIGHT_KEYWORDS) :
                      includes(lowerText, HIGHLIGHT_KEYWORDS[k])
      hasEmphasis == level >= EmphasisLevel
      hasEmphasisPunctuation == \E i \in 1..Len(text) : text[i] \in EmphasisPunctuation
  IN  hasKeyword \/ (hasEmphasis /\ Len(text) >= EmphasisMinLength)
        \/ hasEmphasisPunctuation
shouldHighlight(text, level) ==
  LET lowerText == toLowerCase(text)
      hasKeyword == \E k \in 1..Len(HIGHLIGHT_KEYWORDS) :
                      includes(lowerText, HIGHLIGHT_KEYWORDS[k])
      hasEmphasis == level > EmphasisLevel
      hasEmphasisPunctuation == \E i \in 1..Len(text) : text[i] \in EmphasisPunctuation
  IN  hasKeyword \/ (hasEmphasis /\ Len(text) > EmphasisMinLength)
        \/ hasEmphasisPunctuation

\* ------------------------------------------------------------ environment
\* "o-neul-eun nal-ssi-ga joh-seup-ni-da.": 13 characters, no keyword, no ! or ?
TxtLong == <<"o", "neul", "eun", " ", "nal", "ssi", "ga", " ",
             "joh", "seup", "ni", "da", ".">>
\* "jeong-ri ha-ja": begins with the keyword jeong-ri
TxtKey == <<"jeong", "ri", " ", "ha", "ja">>
\* "jeong": what the engine has heard of TxtKey so far
TxtPart == <<"jeong">>
TxtEmpty == <<>>
FinalTexts == {TxtEmpty, TxtLong, TxtKey}
InterimTexts == {TxtEmpty, TxtPart}

\* A SpeechRecognitionResult (its first alternative) and the results
\* event.results[event.resultIndex .. length-1] of one SpeechRecognitionEvent
Results ==
  [isFinal : {TRUE}, transcript : FinalTexts]
    \cup [isFinal : {FALSE}, transcript : InterimTexts]
Events ==
  {ev \in UNION {[1..n -> Results] : n \in 1..MaxResults} :
     Cardinality({i \in 1..Len(ev) : ev[i].isFinal}) <= MaxFinals}

\* Byte frequency data the analyser can deliver (two bins stand for the 128)
AudioSnapshots == {<<0, 0>>, <<70, 254>>}

RecognitionErrors == {"no-speech", "aborted", "network", "not-allowed", "audio-capture"}
MediaErrors == {"NotAllowedError", "NotFoundError", "AbortError"}
Titles == {"", "t"}

\* ------------------------------------------------------------------ state
VARIABLES
  st,                \* the component's useState values
  mounted,           \* the component is mounted
  recognitionRef,    \* index into engines, 0 for null
  mediaRecorderRef,  \* index into recorders, 0 for null
  audioContextRef,   \* index into contexts, 0 for null
  analyserRef,       \* index into contexts, 0 for null
  animationFrameRef, \* "null", "pending" (id of a scheduled frame), "stale"
  orphanFrames,      \* scheduled analyzeAudio frames whose id the ref no longer holds
  engines,           \* SpeechRecognition objects, with the closure of their handlers
  recorders,         \* MediaRecorder states
  contexts,          \* AudioContext states and the close() calls made on each
  streams,           \* microphone streams acquired
  pendingStarts,     \* handleStartRecording calls waiting in getUserMedia
  starts,            \* start requests made so far
  saved,             \* the Lectures given to onSave
  last,              \* the step just taken (observation only)
  app                \* the useState values of App

recorder == <<st, mounted, recognitionRef, mediaRecorderRef, audioContextRef,
              analyserRef, animationFrameRef, orphanFrames, engines, recorders,
              contexts, streams, pendingStarts, starts, saved>>

vars == <<recorder, last, app>>

refs == <<recognitionRef, mediaRecorderRef, audioContextRef, analyserRef>>
frames == <<animationFrameRef, orphanFrames>>
devices == <<recorders, contexts, streams>>

\* The values a function created in the current render closes over
Closure ==
  [isRecording |-> st.isRecording, isPaused |-> st.isPaused,
   duration |-> st.duration, audioLevel |-> st.audioLevel]

\* The size of the scenario so far: start requests, segments and ticks
Load == starts + Len(st.transcript) + st.duration

Step(op) ==
  [op |-> op, hasFinal |-> FALSE, finalText |-> FALSE, interimText |-> FALSE,
   shownBefore |-> FALSE, snap |-> <<>>, finals |-> 0, final |-> <<>>,
   input |-> <<>>, output |-> <<>>]

\* A state setter called on an unmounted component changes nothing
Commit(new) == st' = IF mounted THEN new ELSE st

\* -------------------------------------------------------------------- App
\* App mounted over an empty store, its effects done.  currentLecture is <<>>
\* for null; now is the millisecond Date.now() reads at the next save (saves
\* are user actions, more than a millisecond apart); store is the JSON text
\* under STORAGE_KEY in localStorage (<<>> for none and for "[]"); phase is
\* how far the mount has come and queued the state update an effect has
\* requested.  Observation only: op, the App handler that ran last;
\* persisted, the identifiers found in the store at the mount;
\* deleteRequested, the identifiers whose delete was requested
InitialApp ==
  [currentView |-> "landing", lectures |-> <<>>, currentLecture |-> <<>>,
   now |-> 0, store |-> <<>>, phase |-> "ready", queued |-> <<>>,
   op |-> "mount", persisted |-> {}, deleteRequested |-> {}]

\* JSON.stringify(lectures): a Date becomes its ISO string
stringify(lectures) ==
  [i \in 1..Len(lectures) |-> [lectures[i] EXCEPT !.date = <<"iso", @>>]]

\* JSON.parse(stored).map(lecture => ({...lecture, date: new Date(lecture.date)}))
parse(stored) ==
  [i \in 1..Len(stored) |-> [stored[i] EXCEPT !.date = @[2]]]

\* The save effect, which runs after every render that changed lectures:
\* localStorage.setItem(STORAGE_KEY, JSON.stringify(lectures))
saveEffect(a) == [a EXCEPT !.store = stringify(a.lectures)]

App_handleStartRecording(a) ==
  [a EXCEPT !.currentView = "recorder", !.op = "startRecording"]

handleSaveLecture(a, lecture) ==
  saveEffect([a EXCEPT !.lectures = <<lecture>> \o a.lectures,
                       !.currentLecture = <<lecture>>,
                       !.currentView = "summary", !.op = "save"])

handleDeleteLecture(a, lectureId) ==
  saveEffect([a EXCEPT
                !.lectures = SelectSeq(a.lectures, LAMBDA l : l.id # lectureId),
                !.currentView = IF a.currentLecture # <<>>
                                   /\ a.currentLecture[1].id = lectureId
                                THEN "lectures" ELSE @,
                !.op = "delete",
                !.deleteRequested = @ \cup {lectureId}])

replaceLecture_all(l, updatedLecture) == updatedLecture
\* l.id === updatedLecture.id ? updatedLecture : l
replaceLecture(l, updatedLecture) ==
  IF l.id = updatedLecture.id THEN updatedLecture ELSE l

handleUpdateLecture(a, updatedLecture) ==
  saveEffect([a EXCEPT !.lectures = [i \in 1..Len(a.lectures) |->
                                       replaceLecture(a.lectures[i], updatedLecture)],
                       !.currentLecture = <<updatedLecture>>, !.op = "update"])

handleViewLectures(a) == [a EXCEPT !.currentView = "lectures", !.op = "list"]

handleViewSummary(a, lecture) ==
  [a EXCEPT !.currentLecture = <<lecture>>, !.currentView = "summary",
            !.op = "view"]

handleBackToHome(a) ==
  [a EXCEPT !.currentView = "landing", !.currentLecture = <<>>, !.op = "home"]

\* The Lecture handleSave builds from the session s and the dialog's fields
assembleLecture(s, title, professor) ==
  [title |-> IF title # "" THEN title ELSE "default-title",
   professor |-> IF professor # "" THEN professor ELSE "undefined",
   duration |-> s.duration, highlights |-> s.highlights,
   transcript |-> s.transcript]

\* id: `lec-${Date.now()}`, date: new Date()
identified(lecture, now) ==
  [id |-> now, date |-> now, title |-> lecture.title, professor |-> lecture.professor,
   duration |-> lecture.duration, highlights |-> lecture.highlights,
   transcript |-> lecture.transcript]

\* onSave(lecture) with the lecture handleSave has built
onSave(a, lecture) ==
  [handleSaveLecture(a, identified(lecture, a.now)) EXCEPT !.now = @ + 1]

Init ==
  /\ app = App_handleStartRecording(InitialApp)
  /\ \E speech \in BOOLEAN, media \in BOOLEAN :
       st = [isRecording |-> FALSE, isPaused |-> FALSE, duration |-> 0,
             transcript |-> <<>>, highlights |-> <<>>, currentText |-> <<>>,
             showSaveDialog |-> FALSE, audioLevel |-> 0,
             isSupported |-> speech /\ media,
             error |-> IF ~media THEN "no-microphone-support"
                       ELSE IF ~speech THEN "no-recognition-support" ELSE "none",
             permissionDenied |-> FALSE]
  /\ mounted = TRUE
  /\ recognitionRef = 0 /\ mediaRecorderRef = 0
  /\ audioContextRef = 0 /\ analyserRef = 0
  /\ animationFrameRef = "null" /\ orphanFrames = 0
  /\ engines = <<>> /\ recorders = <<>> /\ contexts = <<>> /\ streams = <<>>
  /\ pendingStarts = <<>> /\ starts = 0
  /\ saved = <<>>
  /\ last = Step("mount")

\* ------------------------------------------------------------------ timer
\* The interval exists exactly in the renders with isRecording && !isPaused
TimerRunning_ignoresPause(s) == s.isRecording
TimerRunning(s) == s.isRecording /\ ~s.isPaused

Tick ==
  /\ mounted
  /\ TimerRunning(st)
  /\ st.duration < MaxDuration /\ Load < MaxLoad
  /\ st' = [st EXCEPT !.duration = @ + 1]
  /\ last' = Step("tick")
  /\ UNCHANGED <<mounted, refs, frames, engines, devices, pendingStarts, starts, saved>>

\* ---------------------------------------------------------- audio analysis
RECURSIVE Sum(_)
Sum(data) == IF data = <<>> THEN 0 ELSE Head(data) + Sum(Tail(data))

average(data) == Sum(data) \div Len(data)

\* requestAnimationFrame(analyzeAudio) stored into animationFrameRef
RequestFrame ==
  /\ animationFrameRef' = "pending"
  /\ orphanFrames' = IF animationFrameRef = "pending" THEN orphanFrames + 1
                     ELSE orphanFrames

\* if (animationFrameRef.current) cancelAnimationFrame(animationFrameRef.current)
CancelFrame ==
  /\ animationFrameRef' = IF animationFrameRef = "pending" THEN "stale"
                          ELSE animationFrameRef
  /\ UNCHANGED orphanFrames

\* analyzeAudio as created in a render whose isPaused was `paused`,
\* applied to the state s the caller has reached
analyzeAudio(s, paused, data) ==
  IF analyserRef' = 0
  THEN Commit(s) /\ UNCHANGED frames
  ELSE /\ Commit([s EXCEPT !.audioLevel = average(data)])
       /\ IF ~paused THEN RequestFrame ELSE UNCHANGED frames

\* A scheduled frame runs: the loop started by a start, whose isPaused was false.
\* (The callbacks that only call state setters are left out once the component
\* is unmounted, where the setters change nothing.)
animationFrame(orphan, data) ==
  /\ mounted
  /\ IF orphan THEN orphanFrames > 0 ELSE animationFrameRef = "pending"
  /\ Commit([st EXCEPT !.audioLevel = average(data)])
  /\ animationFrameRef' = "pending"
  /\ orphanFrames' = IF orphan /\ animationFrameRef # "pending"
                     THEN orphanFrames - 1 ELSE orphanFrames
  /\ last' = Step("frame")
  /\ UNCHANGED <<mounted, refs, engines, devices, pendingStarts, starts, saved>>

\* ------------------------------------------------------------------ start
\* disabled={!isSupported} of the start button and if (!isSupported) return
\* of the handler
startAllowed_always(s) == TRUE
startAllowed(s) == s.isSupported

\* The start button is rendered while !isRecording; the save dialog is modal.
\* A request made while !isSupported ends at the handler's first test; any
\* other waits in getUserMedia.
handleStartRecording ==
  /\ mounted /\ ~st.showSaveDialog
  /\ ~st.isRecording
  /\ IF startAllowed(st)
     THEN /\ starts < MaxStarts /\ Len(pendingStarts) < MaxPending /\ Load < MaxLoad
          /\ starts' = starts + 1
          /\ pendingStarts' = Append(pendingStarts, Closure)
          /\ last' = Step("start")
     ELSE /\ last' = Step("startRefused")
          /\ UNCHANGED <<starts, pendingStarts>>
  /\ UNCHANGED <<st, mounted, refs, frames, engines, devices, saved>>

\* The retry button of the permission notice, rendered while permissionDenied
handleRetryPermission ==
  /\ mounted /\ ~st.showSaveDialog
  /\ st.permissionDenied
  /\ starts < MaxStarts /\ Len(pendingStarts) < MaxPending /\ Load < MaxLoad
  /\ starts' = starts + 1
  /\ st' = [st EXCEPT !.permissionDenied = FALSE, !.error = "none"]
  /\ pendingStarts' = Append(pendingStarts, Closure)
  /\ last' = Step("retry")
  /\ UNCHANGED <<mounted, refs, frames, engines, devices, saved>>

\* The close button of the permission notice
dismissPermission ==
  /\ mounted /\ ~st.showSaveDialog
  /\ st.permissionDenied
  /\ st' = [st EXCEPT !.permissionDenied = FALSE]
  /\ last' = Step("dismiss")
  /\ UNCHANGED <<mounted, refs, frames, engines, devices, pendingStarts, starts, saved>>

RemoveAt(seq, i) == SubSeq(seq, 1, i - 1) \o SubSeq(seq, i + 1, Len(seq))

\* setupRecognition: the engine's handlers close over the render of the click
setupRecognition(closure) == [state |-> "new", closure |-> closure]

\* getUserMedia resolves for the i-th waiting start: the rest of
\* setupAudioRecording and of handleStartRecording
getUserMediaResolve(i, data) ==
  LET closure == pendingStarts[i]
      n == Len(engines) + 1
  IN  /\ pendingStarts' = RemoveAt(pendingStarts, i)
      /\ streams' = Append(streams, "live")
      /\ recorders' = Append(recorders, "recording")
      /\ contexts' = Append(contexts, [state |-> "running", closes |-> 0])
      /\ mediaRecorderRef' = Len(recorders) + 1
      /\ audioContextRef' = Len(contexts) + 1
      /\ analyserRef' = Len(contexts) + 1
      /\ engines' = Append(engines, [setupRecognition(closure) EXCEPT !.state = "running"])
      /\ recognitionRef' = n
      /\ analyzeAudio([st EXCEPT !.permissionDenied = FALSE, !.error = "none",
                                 !.isRecording = TRUE, !.isPaused = FALSE],
                      closure.isPaused, data)
      /\ last' = Step("started")
      /\ UNCHANGED <<mounted, starts, saved>>

\* setupAudioRecording's catch: getUserMedia rejects for the i-th waiting start
mediaError(s, name) ==
  IF name \in {"NotAllowedError", "PermissionDeniedError"}
  THEN [s EXCEPT !.permissionDenied = TRUE, !.error = "permission-denied"]
  ELSE IF name = "NotFoundError"
       THEN [s EXCEPT !.error = "microphone-not-found"]
       ELSE [s EXCEPT !.error = "microphone-error"]

getUserMediaReject(i, name) ==
  /\ pendingStarts' = RemoveAt(pendingStarts, i)
  /\ Commit(mediaError(st, name))
  /\ last' = Step("startFailed")
  /\ UNCHANGED <<mounted, refs, frames, engines, devices, starts, saved>>

\* getUserMedia resolves for the i-th waiting start and the rest of
\* setupAudioRecording's try block throws (new MediaRecorder(stream) rejects
\* the stream): the catch takes its last branch; the stream stays acquired
setupAudioRecordingThrows(i) ==
  /\ pendingStarts' = RemoveAt(pendingStarts, i)
  /\ streams' = Append(streams, "live")
  /\ Commit([st EXCEPT !.permissionDenied = FALSE, !.error = "microphone-error"])
  /\ last' = Step("startFailed")
  /\ UNCHANGED <<mounted, refs, frames, engines, recorders, contexts, starts, saved>>

\* ---------------------------------------------------- recognition callbacks
RECURSIVE Concat(_, _)
Concat(ev, final) ==
  IF ev = <<>> THEN <<>>
  ELSE (IF Head(ev).isFinal = final THEN Head(ev).transcript ELSE <<>>)
         \o Concat(Tail(ev), final)

finalTranscript(ev) == Concat(ev, TRUE)
interimTranscript(ev) == Concat(ev, FALSE)

showInterim_accumulates(s, interim) == [s EXCEPT !.currentText = @ \o interim]
\* if (interimTranscript) setCurrentText(interimTranscript)
showInterim(s, interim) ==
  IF interim # <<>> THEN [s EXCEPT !.currentText = interim] ELSE s

appendSegment_stale(prev, segment) == <<segment>>
appendSegment_prepends(prev, segment) == <<segment>> \o prev
\* setTranscript(prev => [...prev, segment])
appendSegment(prev, segment) == Append(prev, segment)

appendHighlight_dropped(prev, highlight) == prev
\* setHighlights(prev => [...prev, highlight])
appendHighlight(prev, highlight) == Append(prev, highlight)

\* timestamp: duration and shouldHighlight(finalTranscript, audioLevel), as the
\* handler reads them: from the render that created the engine
segmentTimestamp_ahead(s, closure) == s.duration + 1
segmentTimestamp(s, closure) == closure.duration
highlightLevel(s, closure) == closure.audioLevel

\* if (finalTranscript) { ... }
processFinal(s, closure, final) ==
  IF final = <<>> THEN s
  ELSE
    LET isHighlight == shouldHighlight(final, highlightLevel(s, closure))
        segment == [id |-> Len(s.transcript) + 1,
                    timestamp |-> segmentTimestamp(s, closure),
                    text |-> final, isHighlight |-> isHighlight]
        highlight == [id |-> Len(s.highlights) + 1,
                      timestamp |-> segmentTimestamp(s, closure),
                      text |-> final, summary |-> generateSummary(final),
                      keywords |-> extractKeywords(final), importance |-> "high"]
    IN  [s EXCEPT !.transcript = appendSegment(@, segment),
                  !.currentText = <<>>,
                  !.highlights = IF isHighlight THEN appendHighlight(@, highlight)
                                 ELSE @]

handleResult_interimLast(s, closure, ev) ==
  showInterim(processFinal(s, closure, finalTranscript(ev)), interimTranscript(ev))
handleResult(s, closure, ev) ==
  processFinal(showInterim(s, interimTranscript(ev)), closure, finalTranscript(ev))

\* A running engine delivers any event; an engine told to stop() may still
\* deliver final results for the audio it has received
onresult(k, ev) ==
  /\ mounted
  /\ \/ engines[k].state = "running"
     \/ engines[k].state = "stopping" /\ \A i \in 1..Len(ev) : ev[i].isFinal
  /\ finalTranscript(ev) # <<>> => Len(st.transcript) < MaxSegments /\ Load < MaxLoad
  /\ Commit(handleResult(st, engines[k].closure, ev))
  /\ last' = [Step("result") EXCEPT
                !.hasFinal = \E i \in 1..Len(ev) : ev[i].isFinal,
                !.finalText = finalTranscript(ev) # <<>>,
                !.interimText = interimTranscript(ev) # <<>>,
                !.shownBefore = st.currentText # <<>>,
                !.finals = Cardinality({i \in 1..Len(ev) : ev[i].isFinal}),
                !.final = finalTranscript(ev)]
  /\ UNCHANGED <<mounted, refs, frames, engines, devices, pendingStarts, starts, saved>>

\* recognition.onerror only logs and shows toasts: it calls no state setter
errorState_stopsSession(s, err) == [s EXCEPT !.isRecording = FALSE]
errorState(s, err) == s

onerror(k, err) ==
  /\ mounted
  /\ engines[k].state = "running"
  /\ Commit(errorState(st, err))
  /\ last' = Step("error")
  /\ UNCHANGED <<mounted, refs, frames, engines, devices, pendingStarts, starts, saved>>

\* recognition.onend: the engine has ended (by itself, or after stop() or
\* abort()); the handler restarts it if its isRecording && !isPaused
restartOnEnd(closure) == closure.isRecording /\ ~closure.isPaused

onend(k) ==
  /\ engines[k].state \in {"running", "stopping", "aborting"}
  /\ engines' = [engines EXCEPT ![k].state =
                   IF restartOnEnd(engines[k].closure) THEN "running" ELSE "ended"]
  /\ last' = Step("end")
  /\ UNCHANGED <<st, mounted, refs, frames, devices, pendingStarts, starts, saved>>

\* ----------------------------------------------------------- pause / resume
\* recognition.start() throws InvalidStateError unless the engine is idle
canStart(engine) == engine.state \in {"new", "ended"}

\* recognition.stop()
stopEngine(es, k) ==
  IF k # 0 /\ es[k].state = "running" THEN [es EXCEPT ![k].state = "stopping"] ELSE es

\* recognition.abort()
abortEngine(es, k) ==
  IF k # 0 /\ es[k].state \in {"running", "stopping"}
  THEN [es EXCEPT ![k].state = "aborting"] ELSE es

resumeState_restartsTimer(s) == [s EXCEPT !.isPaused = FALSE, !.duration = 0]
resumeState(s) == [s EXCEPT !.isPaused = FALSE]
pauseState(s) == [s EXCEPT !.isPaused = TRUE]

\* The pause / resume and stop buttons take the start button's place while
\* isRecording
controlsRendered_always(s) == TRUE
controlsRendered(s) == s.isRecording

\* The pause / resume button
handlePauseResume(data) ==
  /\ mounted /\ ~st.showSaveDialog
  /\ controlsRendered(st)
  /\ IF st.isPaused
     THEN IF recognitionRef # 0 /\ ~canStart(engines[recognitionRef])
          THEN \* recognitionRef.current.start() throws
               /\ last' = [Step("resumeFailed") EXCEPT
                             !.snap = IF last.op = "pause" THEN last.snap ELSE <<>>]
               /\ UNCHANGED <<st, frames, engines, recorders>>
          ELSE /\ engines' = IF recognitionRef # 0
                             THEN [engines EXCEPT ![recognitionRef].state = "running"]
                             ELSE engines
               /\ IF mediaRecorderRef # 0 /\ recorders[mediaRecorderRef] = "inactive"
                  THEN \* mediaRecorderRef.current.resume() throws
                       /\ last' = [Step("resumeFailed") EXCEPT
                                     !.snap = IF last.op = "pause" THEN last.snap ELSE <<>>]
                       /\ UNCHANGED <<st, frames, recorders>>
                  ELSE /\ recorders' = IF mediaRecorderRef # 0
                                       THEN [recorders EXCEPT ![mediaRecorderRef] = "recording"]
                                       ELSE recorders
                       /\ UNCHANGED analyserRef
                       /\ analyzeAudio(resumeState(st), st.isPaused, data)
                       /\ last' = [Step("resume") EXCEPT
                                     !.snap = IF last.op = "pause" THEN last.snap ELSE <<>>]
     ELSE /\ engines' = stopEngine(engines, recognitionRef)
          /\ IF mediaRecorderRef # 0 /\ recorders[mediaRecorderRef] = "inactive"
             THEN \* mediaRecorderRef.current.pause() throws
                  /\ last' = Step("pauseFailed")
                  /\ UNCHANGED <<st, frames, recorders>>
             ELSE /\ recorders' = IF mediaRecorderRef # 0
                                  THEN [recorders EXCEPT ![mediaRecorderRef] = "paused"]
                                  ELSE recorders
                  /\ st' = pauseState(st)
                  /\ CancelFrame
                  /\ last' = [Step("pause") EXCEPT
                                !.snap = <<st.transcript, st.highlights, st.duration>>]
  /\ UNCHANGED <<mounted, recognitionRef, mediaRecorderRef, audioContextRef,
                 analyserRef, contexts, streams, pendingStarts, starts, saved>>

\* ------------------------------------------------------------------- stop
\* mediaRecorder.stop() unless inactive
stopRecorder(rs, k) ==
  IF k # 0 /\ rs[k] # "inactive" THEN [rs EXCEPT ![k] = "inactive"] ELSE rs

\* audioContext.close()
closeContext(cs, k) ==
  IF k # 0 THEN [cs EXCEPT ![k] = [state |-> "closed", closes |-> @.closes + 1]] ELSE cs

stopState_noDialog(s) == [s EXCEPT !.isRecording = FALSE]
stopState(s) == [s EXCEPT !.isRecording = FALSE, !.showSaveDialog = TRUE]

\* The stop button
handleStopRecording ==
  /\ mounted /\ ~st.showSaveDialog
  /\ controlsRendered(st)
  /\ engines' = stopEngine(engines, recognitionRef)
  /\ recognitionRef' = 0
  /\ recorders' = stopRecorder(recorders, mediaRecorderRef)
  /\ CancelFrame
  /\ contexts' = closeContext(contexts, audioContextRef)
  /\ st' = stopState(st)
  /\ last' = Step("stop")
  /\ UNCHANGED <<mounted, mediaRecorderRef, audioContextRef, analyserRef, streams,
                 pendingStarts, starts, saved>>

\* ------------------------------------------------------- save and unmount
\* The cleanup of the unmount effect
cleanup ==
  /\ mounted' = FALSE
  /\ engines' = abortEngine(engines, recognitionRef)
  /\ recorders' = stopRecorder(recorders, mediaRecorderRef)
  /\ CancelFrame
  /\ contexts' = closeContext(contexts, audioContextRef)
  /\ UNCHANGED <<st, refs, streams, pendingStarts, starts>>

\* The cancel button of the save dialog
closeSaveDialog ==
  /\ mounted /\ st.showSaveDialog
  /\ st' = [st EXCEPT !.showSaveDialog = FALSE]
  /\ last' = Step("closeDialog")
  /\ UNCHANGED <<mounted, refs, frames, engines, devices, pendingStarts, starts, saved>>

\* The save button of the save dialog; onSave makes App show the summary
\* view, which unmounts the recorder
handleSave(title, professor) ==
  /\ mounted /\ st.showSaveDialog
  /\ saved' = Append(saved, assembleLecture(st, title, professor))
  /\ app' = onSave(app, assembleLecture(st, title, professor))
  /\ cleanup
  /\ last' = Step("save")

\* The cancel button of the header: App shows the landing page
onCancel ==
  /\ mounted /\ ~st.showSaveDialog
  /\ cleanup
  /\ app' = handleBackToHome(app)
  /\ last' = Step("unmount")
  /\ UNCHANGED saved

\* ------------------------------------------------------------------- spec
Next ==
  \/ Tick /\ UNCHANGED app
  \/ \E orphan \in BOOLEAN, data \in AudioSnapshots :
       animationFrame(orphan, data) /\ UNCHANGED app
  \/ handleStartRecording /\ UNCHANGED app
  \/ handleRetryPermission /\ UNCHANGED app
  \/ dismissPermission /\ UNCHANGED app
  \/ \E i \in 1..Len(pendingStarts), data \in AudioSnapshots :
       getUserMediaResolve(i, data) /\ UNCHANGED app
  \/ \E i \in 1..Len(pendingStarts), name \in MediaErrors :
       getUserMediaReject(i, name) /\ UNCHANGED app
  \/ \E i \in 1..Len(pendingStarts) : setupAudioRecordingThrows(i) /\ UNCHANGED app
  \/ \E k \in 1..Len(engines), ev \in Events : onresult(k, ev) /\ UNCHANGED app
  \/ \E k \in 1..Len(engines), err \in RecognitionErrors :
       onerror(k, err) /\ UNCHANGED app
  \/ \E k \in 1..Len(engines) : onend(k) /\ UNCHANGED app
  \/ \E data \in AudioSnapshots : handlePauseResume(data) /\ UNCHANGED app
  \/ handleStopRecording /\ UNCHANGED app
  \/ closeSaveDialog /\ UNCHANGED app
  \/ \E title \in Titles, professor \in Titles :
       handleSave(title, professor)
  \/ onCancel

Spec == Init /\ [][Next]_vars

\* A session that has been started, has run for one second, has been stopped
\* and whose save dialog has been cancelled: the recorder is idle again with
\* the first session's duration, its stopped engine and its closed context.
\* (starts counts the start requests made from this state on.)
InitRestarted ==
  /\ app = App_handleStartRecording(InitialApp)
  /\ \E data \in AudioSnapshots :
       st = [isRecording |-> FALSE, isPaused |-> FALSE, duration |-> 1,
             transcript |-> <<>>, highlights |-> <<>>, currentText |-> <<>>,
             showSaveDialog |-> FALSE, audioLevel |-> average(data),
             isSupported |-> TRUE, error |-> "none", permissionDenied |-> FALSE]
  /\ mounted = TRUE
  /\ recognitionRef = 0 /\ mediaRecorderRef = 1
  /\ audioContextRef = 1 /\ analyserRef = 1
  /\ animationFrameRef = "stale" /\ orphanFrames = 0
  /\ \E state \in {"stopping", "ended"} :
       engines = << [state |-> state,
                     closure |-> [isRecording |-> FALSE, isPaused |-> FALSE,
                                  duration |-> 0, audioLevel |-> 0]] >>
  /\ recorders = <<"inactive">>
  /\ contexts = << [state |-> "closed", closes |-> 1] >>
  /\ streams = <<"live">>
  /\ pendingStarts = <<>> /\ starts = 0
  /\ saved = <<>>
  /\ last = Step("closeDialog")

SpecRestarted == InitRestarted /\ [][Next]_vars

\* The session restarted from there: the start button has been clicked at
\* duration 1, getUserMedia has resolved and the second engine has delivered
\* the final text TxtLong.  The second engine carries the values of the
\* render of that click; the engine of the first session is still stopping.
SecondSessionEngines ==
  << [state |-> "stopping",
      closure |-> [isRecording |-> FALSE, isPaused |-> FALSE,
                   duration |-> 0, audioLevel |-> 0]],
     [state |-> "running",
      closure |-> [isRecording |-> FALSE, isPaused |-> FALSE,
                   duration |-> 1, audioLevel |-> 0]] >>

SecondSession(level) ==
  /\ st = processFinal(
            [isRecording |-> TRUE, isPaused |-> FALSE, duration |-> 1,
             transcript |-> <<>>, highlights |-> <<>>, currentText |-> <<>>,
             showSaveDialog |-> FALSE, audioLevel |-> level,
             isSupported |-> TRUE, error |-> "none", permissionDenied |-> FALSE],
            SecondSessionEngines[2].closure, TxtLong)
  /\ mounted = TRUE
  /\ recognitionRef = 2 /\ mediaRecorderRef = 2
  /\ audioContextRef = 2 /\ analyserRef = 2
  /\ animationFrameRef = "pending" /\ orphanFrames = 0
  /\ engines = SecondSessionEngines
  /\ recorders = <<"inactive", "recording">>
  /\ contexts = << [state |-> "closed", closes |-> 1],
                   [state |-> "running", closes |-> 0] >>
  /\ streams = <<"live", "live">>
  /\ pendingStarts = <<>>
  /\ saved = <<>>
  /\ last = [Step("result") EXCEPT !.hasFinal = TRUE, !.finalText = TRUE,
                                   !.finals = 1, !.final = TxtLong]

\* (starts counts the start requests made from this state on.)
InitSecondSession ==
  /\ app = App_handleStartRecording(InitialApp)
  /\ \E data \in AudioSnapshots : SecondSession(average(data))
  /\ starts = 0

\* What happens to a session that is running: everything but further start
\* requests
NextSecondSession ==
  \/ Tick /\ UNCHANGED app
  \/ \E orphan \in BOOLEAN, data \in AudioSnapshots :
       animationFrame(orphan, data) /\ UNCHANGED app
  \/ \E k \in 1..Len(engines), ev \in Events : onresult(k, ev) /\ UNCHANGED app
  \/ \E k \in 1..Len(engines), err \in RecognitionErrors :
       onerror(k, err) /\ UNCHANGED app
  \/ \E k \in 1..Len(engines) : onend(k) /\ UNCHANGED app
  \/ \E data \in AudioSnapshots : handlePauseResume(data) /\ UNCHANGED app
  \/ handleStopRecording /\ UNCHANGED app
  \/ closeSaveDialog /\ UNCHANGED app
  \/ \E title \in Titles, professor \in Titles :
       handleSave(title, professor)
  \/ onCancel

SpecSecondSession == InitSecondSession /\ [][NextSecondSession]_vars

\* ------------------------------------------------------ the application
\* App with its four views.  The recorder view is summarised by what it
\* hands back: a Lecture through onSave, or nothing through onCancel.
Professors == {"", "p"}

\* What a session can hold when it is saved: nothing, or one flagged segment
\* with its highlight
RecordedSessions ==
  {[duration |-> 0, transcript |-> <<>>, highlights |-> <<>>],
   processFinal([duration |-> 1, transcript |-> <<>>, highlights |-> <<>>],
                [duration |-> 1, audioLevel |-> 0], TxtKey)}

InitApp ==
  /\ app = InitialApp
  /\ st = [isRecording |-> FALSE, isPaused |-> FALSE, duration |-> 0,
           transcript |-> <<>>, highlights |-> <<>>, currentText |-> <<>>,
           showSaveDialog |-> FALSE, audioLevel |-> 0,
           isSupported |-> TRUE, error |-> "none", permissionDenied |-> FALSE]
  /\ mounted = FALSE
  /\ recognitionRef = 0 /\ mediaRecorderRef = 0
  /\ audioContextRef = 0 /\ analyserRef = 0
  /\ animationFrameRef = "null" /\ orphanFrames = 0
  /\ engines = <<>> /\ recorders = <<>> /\ contexts = <<>> /\ streams = <<>>
  /\ pendingStarts = <<>> /\ starts = 0
  /\ saved = <<>>
  /\ last = Step("mount")

\* LandingPage: the start buttons
landingStartRecording ==
  /\ app.currentView = "landing" /\ app.now < MaxLectures
  /\ app' = App_handleStartRecording(app)

\* LandingPage: the lecture-list button
landingViewLectures ==
  /\ app.currentView = "landing"
  /\ app' = handleViewLectures(app)

\* LectureRecorder: the save dialog confirmed after a session s
recorderSave(s, title, professor) ==
  /\ app.currentView = "recorder"
  /\ app' = onSave(app, assembleLecture(s, title, professor))

\* LectureRecorder: the cancel button
recorderCancel ==
  /\ app.currentView = "recorder"
  /\ app' = handleBackToHome(app)

\* LectureList: a lecture card clicked
selectLecture(i) ==
  /\ app.currentView = "lectures"
  /\ app' = handleViewSummary(app, app.lectures[i])

\* LectureList: handleDeleteClick, then confirmDelete in the dialog
confirmDelete(i) ==
  /\ app.currentView = "lectures"
  /\ app' = handleDeleteLecture(app, app.lectures[i].id)

\* SummaryView: {...lecture, title: editedTitle, professor: editedProfessor || undefined}
editedLecture(lecture, title, professor) ==
  [lecture EXCEPT !.title = title,
                  !.professor = IF professor # "" THEN professor ELSE "undefined"]

\* SummaryView: the save button of the edit dialog
handleSaveTitle(title, professor) ==
  /\ app.currentView = "summary" /\ app.currentLecture # <<>>
  /\ app' = handleUpdateLecture(app, editedLecture(app.currentLecture[1], title, professor))

\* SummaryView: onDeleteLecture(lecture.id); onBack() in one event
handleDelete ==
  /\ app.currentView = "summary" /\ app.currentLecture # <<>>
  /\ app' = [handleBackToHome(handleDeleteLecture(app, app.currentLecture[1].id))
               EXCEPT !.op = "deleteCurrent"]

\* LectureList and SummaryView: the back button
onBack ==
  /\ app.currentView \in {"lectures", "summary"}
  /\ app' = handleBackToHome(app)

NextApp ==
  \/ landingStartRecording /\ UNCHANGED <<recorder, last>>
  \/ landingViewLectures /\ UNCHANGED <<recorder, last>>
  \/ \E s \in RecordedSessions, title \in Titles, professor \in Professors :
       recorderSave(s, title, professor) /\ UNCHANGED <<recorder, last>>
  \/ recorderCancel /\ UNCHANGED <<recorder, last>>
  \/ \E i \in 1..Len(app.lectures) : selectLecture(i) /\ UNCHANGED <<recorder, last>>
  \/ \E i \in 1..Len(app.lectures) : confirmDelete(i) /\ UNCHANGED <<recorder, last>>
  \/ \E title \in Titles, professor \in Professors :
       handleSaveTitle(title, professor) /\ UNCHANGED <<recorder, last>>
  \/ handleDelete /\ UNCHANGED <<recorder, last>>
  \/ onBack /\ UNCHANGED <<recorder, last>>

SpecApp == InitApp /\ [][NextApp]_vars

\* ------------------------------------------------- the mount of the App
\* App mounting over a store that holds lectures saved earlier (their
\* identifiers are earlier instants), and the application used from there.
Persisted1 ==
  identified(assembleLecture([duration |-> 0, transcript |-> <<>>, highlights |-> <<>>],
                             "t", ""), -1)
Persisted2 ==
  identified(assembleLecture([duration |-> 1, transcript |-> <<>>, highlights |-> <<>>],
                             "", "p"), -2)
PersistedLists == {<<Persisted1>>, <<Persisted1, Persisted2>>}

InitMount ==
  /\ \E lectures \in PersistedLists :
       app = [InitialApp EXCEPT
                !.store = stringify(lectures), !.phase = "mounting",
                !.persisted = {lectures[i].id : i \in 1..Len(lectures)}]
  /\ st = [isRecording |-> FALSE, isPaused |-> FALSE, duration |-> 0,
           transcript |-> <<>>, highlights |-> <<>>, currentText |-> <<>>,
           showSaveDialog |-> FALSE, audioLevel |-> 0,
           isSupported |-> TRUE, error |-> "none", permissionDenied |-> FALSE]
  /\ mounted = FALSE
  /\ recognitionRef = 0 /\ mediaRecorderRef = 0
  /\ audioContextRef = 0 /\ analyserRef = 0
  /\ animationFrameRef = "null" /\ orphanFrames = 0
  /\ engines = <<>> /\ recorders = <<>> /\ contexts = <<>> /\ streams = <<>>
  /\ pendingStarts = <<>> /\ starts = 0
  /\ saved = <<>>
  /\ last = Step("mount")

\* The load effect of the mount: if (stored) setLectures(parsed)
loadEffect ==
  /\ app.phase = "mounting"
  /\ app' = [app EXCEPT !.phase = "loaded", !.op = "load",
                        !.queued = IF app.store # <<>> THEN <<parse(app.store)>>
                                   ELSE <<>>]

\* The save effect of the mount, which runs after the load effect with the
\* lectures of the first render
mountSaveEffect ==
  /\ app.phase = "loaded"
  /\ app' = [saveEffect(app) EXCEPT !.phase = "effectsDone", !.op = "saveEffect"]

\* The render the load effect has asked for, and its save effect
renderLoaded ==
  /\ app.phase = "effectsDone"
  /\ app' = [(IF app.queued # <<>>
              THEN saveEffect([app EXCEPT !.lectures = app.queued[1]])
              ELSE app)
               EXCEPT !.phase = "ready", !.queued = <<>>, !.op = "render"]

NextMount ==
  \/ loadEffect /\ UNCHANGED <<recorder, last>>
  \/ mountSaveEffect /\ UNCHANGED <<recorder, last>>
  \/ renderLoaded /\ UNCHANGED <<recorder, last>>
  \/ app.phase = "ready" /\ NextApp

SpecMount == InitMount /\ [][NextMount]_vars

\* ------------------------------------------------- the pure functions
\* shouldHighlight, generateSummary and extractKeywords applied to inputs;
\* last holds the input and the value returned.
Syllables == <<"ga", "na", "da", "ra", "ma", "ba", "sa">>

\* n syllables that form no keyword and hold no punctuation
Filler(n) == [i \in 1..n |-> Syllables[((i - 1) % Len(Syllables)) + 1]]

KeywordSet == {HIGHLIGHT_KEYWORDS[k] : k \in 1..Len(HIGHLIGHT_KEYWORDS)}

\* Texts around the length limit, with and without punctuation, with each
\* keyword inside, with parts of a keyword, and with upper-case letters
ClassifierTexts ==
  {Filler(n) : n \in {0, 1, 9, 10, 11, 12}}
    \cup {Filler(n) \o <<p>> : n \in {0, 9, 10}, p \in {"!", "?", ".", ","}}
    \cup {Filler(2) \o keyword \o Filler(1) : keyword \in KeywordSet}
    \cup {<<"jung">>, <<"yo", "jung">>, <<"jung", " ", "yo">>, <<"K", "e", "y">>,
          <<"H", "E", "L", "L", "O", " ", "W", "O", "R", "L", "D">>}

\* Levels analyzeAudio can set, on both sides of the emphasis threshold
Levels == {0, 30, 80, 81, 100}

\* Texts around the summary limit, with the sentence end before, after and
\* at the limit, and with white space around the first sentence
SummaryTexts ==
  {Filler(n) : n \in {0, 1, 97, 99, 100, 101, 103, 120}}
    \cup {Filler(n) \o <<".">> \o Filler(3) : n \in {100, 101}}
    \cup {<<".">> \o Filler(n) : n \in {5, 100, 101}}
    \cup {<<" ">> \o Filler(101) \o <<" ">>,
          <<" ">> \o Filler(100) \o <<" ", ".">>,
          <<" ", ".">> \o Filler(101),
          Filler(50) \o <<"?">> \o Filler(101)}

RECURSIVE Join(_)
Join(words) ==
  IF words = <<>> THEN <<>>
  ELSE IF Len(words) = 1 THEN words[1]
  ELSE words[1] \o <<" ">> \o Join(Tail(words))

W1 == <<"ga", "na">>
W2 == <<"da", "ra">>
W3 == <<"ba", "sa">>
W4 == <<"ma", "ba">>
W5 == <<"sa", "ga">>
W6 == <<"ra", "ma">>
KeyWord == <<"jung", "yo">>
Vocabulary == {W1, W2, KeyWord, <<"ma">>, <<"ga", ",", "na", ".">>}

\* Every text of up to three words of the vocabulary; texts with more than
\* five repeated words, with more than five words after a keyword, with a
\* word found late, with a word found twice, with a second repeated word
\* after five tokens of the first, and with surplus white space
KeywordTexts ==
  {Join(words) : words \in UNION {[1..n -> Vocabulary] : n \in 1..3}}
    \cup {Join(<<W1, W2, W3, W4, W5, W6, W1, W2, W3, W4, W5, W6>>),
          Join(<<KeyWord, W1, KeyWord, W2, KeyWord, W3, KeyWord, W4,
                 KeyWord, W5, KeyWord, W6>>),
          Join(<<W1, W1, W1, W1, W1, W2, KeyWord, W3, KeyWord, W2>>),
          Join(<<W1, KeyWord, W2, W1>>),
          Join(<<W1, W1, W1, W1, W1, W2, W2>>),
          <<" ">> \o W1 \o <<" ", " ">> \o W1}

InitFunctions == InitApp

applyShouldHighlight(text, level) ==
  last' = [Step("shouldHighlight") EXCEPT
             !.input = <<text, level>>,
             !.output = <<shouldHighlight(text, level)>>]

applyGenerateSummary(text) ==
  last' = [Step("generateSummary") EXCEPT
             !.input = <<text>>, !.output = <<generateSummary(text)>>]

applyExtractKeywords(text) ==
  last' = [Step("extractKeywords") EXCEPT
             !.input = <<text>>, !.output = <<extractKeywords(text)>>]

NextFunctions ==
  \/ \E text \in ClassifierTexts, level \in Levels :
       applyShouldHighlight(text, level) /\ UNCHANGED <<recorder, app>>
  \/ \E text \in SummaryTexts :
       applyGenerateSummary(text) /\ UNCHANGED <<recorder, app>>
  \/ \E text \in KeywordTexts :
       applyExtractKeywords(text) /\ UNCHANGED <<recorder, app>>

SpecFunctions == InitFunctions /\ [][NextFunctions]_vars

\* ------------------------------------------------- the lecture scenario
\* A session in which the engine hears "mul-li-hak-ui beop-chik-eun
\* jung-yo-hap-ni-da.": first the interim text "mul-li-hak-ui", then the
\* final text.
ScenarioInterim == <<"mul", "li", "hak", "ui">>
ScenarioFinal ==
  ScenarioInterim \o <<" ", "beop", "chik", "eun", " ",
                       "jung", "yo", "hap", "ni", "da", ".">>
InterimEvent == << [isFinal |-> FALSE, transcript |-> ScenarioInterim] >>
FinalEvent == << [isFinal |-> TRUE, transcript |-> ScenarioFinal] >>

InitScenario == Init /\ st.isSupported

NextScenario ==
  \/ handleStartRecording /\ UNCHANGED app
  \/ \E i \in 1..Len(pendingStarts), data \in AudioSnapshots :
       getUserMediaResolve(i, data) /\ UNCHANGED app
  \/ Tick /\ UNCHANGED app
  \/ \E orphan \in BOOLEAN, data \in AudioSnapshots :
       animationFrame(orphan, data) /\ UNCHANGED app
  \/ \E k \in 1..Len(engines) :
       /\ st.transcript = <<>> /\ st.currentText = <<>>
       /\ onresult(k, InterimEvent) /\ UNCHANGED app
  \/ \E k \in 1..Len(engines) :
       /\ st.transcript = <<>> /\ st.currentText = ScenarioInterim
       /\ onresult(k, FinalEvent) /\ UNCHANGED app
  \/ \E data \in AudioSnapshots : handlePauseResume(data) /\ UNCHANGED app

SpecScenario == InitScenario /\ [][NextScenario]_vars

\* ----------------------------------------------------------------- claims
Recording == st.isRecording /\ ~st.isPaused
Paused == st.isRecording /\ st.isPaused

\* While the component is mounted only handleStopRecording closes an AudioContext
StopPerformed == mounted /\ \E c \in 1..Len(contexts) : contexts[c].closes > 0

LastSegment(s) == s.transcript[Len(s.transcript)]
SegmentAdded == Len(st'.transcript) > Len(st.transcript)
HighlightAdded == Len(st'.highlights) > Len(st.highlights)

\* C1: the duration never decreases; it changes only by one, through a tick
\* taken while isRecording and not isPaused; every step taken while paused or
\* while not recording (idle, stopped) leaves it unchanged.
C1_DurationAdvancesOnlyWhileRecording ==
  [][/\ st'.duration >= st.duration
     /\ st'.duration # st.duration =>
          st'.duration = st.duration + 1 /\ Recording /\ last'.op = "tick"
     /\ ~Recording => st'.duration = st.duration]_vars

\* C1 witness: a recognition event has been handled after stop(), at a
\* duration that ticks had advanced
C1_Witness ==
  /\ StopPerformed /\ ~st.isRecording
  /\ st.duration > 0 /\ last.op = "result"

\* C2: the segment appended for a final event carries the duration the
\* session has when the event is handled.
C2_TimestampIsCurrentDuration ==
  [][SegmentAdded => LastSegment(st').timestamp = st.duration]_vars

\* C3: a highlight is appended for a finalized fragment exactly when
\* shouldHighlight holds of its text and the latest audio-level sample.
C3_HighlightIffShouldHighlightNow ==
  [][SegmentAdded =>
       (HighlightAdded <=> shouldHighlight(LastSegment(st').text, st.audioLevel))]_vars

\* C4: after a pause() immediately followed by a resume(), transcript,
\* highlights and duration are what they were when pause() was called.
C4_PauseResumePreserves ==
  (last.op \in {"resume", "resumeFailed"} /\ last.snap # <<>>) =>
    <<st.transcript, st.highlights, st.duration>> = last.snap

\* C4 witness: a pause and resume of a session that has a segment, a
\* highlight and a positive duration
C4_Witness ==
  /\ last.op = "resume" /\ last.snap # <<>>
  /\ st.transcript # <<>> /\ st.highlights # <<>> /\ st.duration > 0

\* C5: once stop() has been performed the session never records again.
C5_StoppedIsTerminal == StopPerformed => ~st.isRecording

\* C6: segments and highlights are appended only while the session is
\* Recording, never by a result delivered while paused or after stop().
C6_AppendsOnlyWhileRecording ==
  [][(SegmentAdded \/ HighlightAdded) => Recording]_vars

\* C7: immediately after pause() and immediately after stop() the interim
\* text is empty.
C7_InterimDiscardedOnPauseAndStop ==
  last.op \in {"pause", "stop"} => st.currentText = <<>>

\* C8 as stated: immediately after an event that contains a final result
\* has been handled, the interim text is empty.
C8_ClearedAfterAnyFinalResult ==
  (last.op = "result" /\ last.hasFinal) => st.currentText = <<>>

\* C8 amended: immediately after an event whose final results carry text
\* has been handled, the interim text is empty, whatever was shown before and
\* whatever non-final results the event also carried.
C8_ClearedAfterFinalText ==
  (last.op = "result" /\ last.finalText) => st.currentText = <<>>

\* C8 witness: a final text handled in an event that also carried interim
\* text, while interim text was shown
C8_Witness ==
  /\ last.op = "result" /\ last.finalText /\ last.interimText /\ last.shownBefore
  /\ st.currentText = <<>>

InterimOnly(ev) == \A i \in 1..Len(ev) : ~ev[i].isFinal
InterimOnlyStep == last'.op = "result" /\ ~last'.hasFinal

\* C9 as stated: an event with only non-final results replaces the interim
\* text by the event's partial text and changes nothing else.
C9_InterimAlwaysReplaces ==
  [][InterimOnlyStep =>
       \A k \in 1..Len(engines), ev \in Events :
         (InterimOnly(ev) /\ onresult(k, ev)) =>
           st' = [st EXCEPT !.currentText = interimTranscript(ev)]]_vars

\* C9 amended: an event with only non-final results replaces the interim
\* text by the event's partial text when that text is not empty and leaves it
\* as it was when it is empty; transcript, highlights, duration and the rest
\* of the state are unchanged.
C9_InterimReplacesWhenNotEmpty ==
  [][InterimOnlyStep =>
       \A k \in 1..Len(engines), ev \in Events :
         (InterimOnly(ev) /\ onresult(k, ev)) =>
           st' = IF interimTranscript(ev) # <<>>
                 THEN [st EXCEPT !.currentText = interimTranscript(ev)]
                 ELSE st]_vars

\* C9 witness: an interim-only event with text, handled while other interim
\* text was shown and the transcript had a segment
C9_Witness ==
  /\ last.op = "result" /\ ~last.hasFinal /\ last.interimText /\ last.shownBefore
  /\ st.transcript # <<>> /\ st.currentText # <<>>

\* C10: every step leaves the transcript before it a prefix of the
\* transcript after it.
C10_TranscriptAppendOnly ==
  [][/\ Len(st.transcript) <= Len(st'.transcript)
     /\ SubSeq(st'.transcript, 1, Len(st.transcript)) = st.transcript]_vars

\* C10 witness: a segment has been appended to a transcript that had one
C10_Witness == Len(st.transcript) >= 2 /\ last.op = "result" /\ last.finalText

\* The segments flagged as highlights, in transcript order
HighlightedSegments(s) == SelectSeq(s.transcript, LAMBDA seg : seg.isHighlight)

\* C11: the highlights are, in order, the companions of the segments with
\* isHighlight = true: as many highlights as flagged segments, the i-th
\* highlight carrying the timestamp and the text of the i-th flagged segment;
\* an unflagged segment has no companion.
C11_HighlightsMatchFlaggedSegments ==
  /\ Len(st.highlights) = Len(HighlightedSegments(st))
  /\ \A i \in 1..Len(st.highlights) :
       /\ st.highlights[i].timestamp = HighlightedSegments(st)[i].timestamp
       /\ st.highlights[i].text = HighlightedSegments(st)[i].text

\* C11 witness: a transcript with a flagged and an unflagged segment and the
\* one highlight of the flagged one
C11_Witness ==
  /\ Len(st.transcript) = 2 /\ Len(st.highlights) = 1
  /\ \E i, j \in 1..2 : st.transcript[i].isHighlight /\ ~st.transcript[j].isHighlight

\* C12: handling an event with final text appends one segment with that text
\* at the end of the transcript, after all segments of earlier events; a
\* highlight appended in a step is the companion of the segment that is last
\* in the transcript after the step.
C12_SegmentsInDeliveryOrder ==
  [][/\ (last'.op = "result" /\ last'.final # <<>>) =>
          /\ st'.transcript = Append(st.transcript, LastSegment(st'))
          /\ LastSegment(st').text = last'.final
     /\ HighlightAdded =>
          /\ st'.transcript # <<>> /\ LastSegment(st').isHighlight
          /\ st'.highlights[Len(st'.highlights)].text = LastSegment(st').text
          /\ st'.highlights[Len(st'.highlights)].timestamp = LastSegment(st').timestamp
          /\ Len(st'.highlights) = Len(st.highlights) + 1]_vars

\* C12 witness: two events with different final texts have been handled, the
\* second one flagged, and the transcript holds them in that order
C12_Witness ==
  /\ last.op = "result" /\ last.final = TxtKey
  /\ Len(st.transcript) = 2
  /\ st.transcript[1].text = TxtLong /\ st.transcript[2].text = TxtKey
  /\ st.highlights # <<>>

\* C13: an event handled while Recording adds as many segments as it carries
\* final results.
C13_OneSegmentPerFinalResult ==
  [][(last'.op = "result" /\ Recording) =>
       Len(st'.transcript) = Len(st.transcript) + last'.finals]_vars

\* C14: every segment's timestamp is at most the current duration, and in
\* the Lecture handed to onSave every segment's timestamp (the last one's
\* too) is at most the Lecture's duration.
C14_TimestampAtMostDuration ==
  /\ \A i \in 1..Len(st.transcript) : st.transcript[i].timestamp <= st.duration
  /\ \A n \in 1..Len(saved) :
       \A i \in 1..Len(saved[n].transcript) :
         saved[n].transcript[i].timestamp <= saved[n].duration

\* C14 witness: a Lecture saved with a segment stamped after the first second,
\* by a session started when the duration was already positive
C14_Witness ==
  /\ saved # <<>> /\ saved[1].transcript # <<>>
  /\ saved[1].transcript[Len(saved[1].transcript)].timestamp > 0
  /\ saved[1].duration >= saved[1].transcript[Len(saved[1].transcript)].timestamp

\* A frame of the sampling loop is scheduled
SamplingScheduled == animationFrameRef = "pending" \/ orphanFrames > 0
EngineRunning(k) == k # 0 /\ engines[k].state = "running"
Stopped == StopPerformed /\ ~st.isRecording

\* C15: immediately after a resume() that went through, the session is
\* Recording, the next frame of the sampling loop is scheduled and the
\* session's engine is running.
C15_ResumeRestartsBothFeeds ==
  last.op = "resume" =>
    Recording /\ SamplingScheduled /\ EngineRunning(recognitionRef)

\* C16: a step taken while the session is not Recording takes no audio
\* sample, and changes the audio level only if it makes the session Recording.
C16_SamplingOnlyWhileRecording ==
  [][(mounted /\ ~Recording) =>
       /\ last'.op # "frame"
       /\ st'.audioLevel # st.audioLevel => st'.isRecording /\ ~st'.isPaused]_vars

\* C17: when a running engine ends while the session is Recording, its end
\* handler starts it again.
C17_RestartsOnUnexpectedEnd ==
  [][(mounted /\ Recording /\ last'.op = "end") =>
       \A k \in 1..Len(engines) :
         (engines[k].state = "running" /\ onend(k)) => engines'[k].state = "running"]_vars

\* C18: while the session is Paused or Stopped no recognition engine is
\* running.
C18_NoEngineRunsWhilePausedOrStopped ==
  (mounted /\ (Paused \/ Stopped)) => \A k \in 1..Len(engines) : ~EngineRunning(k)

TransientErrors == {"no-speech", "aborted", "network"}
FatalErrors == RecognitionErrors \ TransientErrors

\* C19: a no-speech, aborted or network error handled while Recording leaves
\* the component's state as it was: still Recording, with the same duration,
\* transcript, highlights and interim text.
C19_TransientErrorChangesNothing ==
  [][(mounted /\ Recording /\ last'.op = "error") =>
       \A k \in 1..Len(engines), err \in TransientErrors :
         onerror(k, err) => st' = st]_vars

\* C19 witness: an error handled in a session that has a segment, interim
\* text and a positive duration
C19_Witness ==
  /\ mounted /\ Recording /\ last.op = "error"
  /\ st.transcript # <<>> /\ st.currentText # <<>> /\ st.duration > 0

\* C20: after a rejected getUserMedia the session is not recording, has an
\* error reason, and its duration, transcript and highlights are unchanged;
\* after an engine that was just started reports that it cannot listen
\* (not-allowed, audio-capture) the session is not recording and has an error
\* reason; after getUserMedia is granted (also on a retry) the session is
\* Recording with the error cleared.
C20_FailedStartLeavesIdleWithReason ==
  [][mounted =>
       /\ last'.op = "startFailed" =>
            /\ ~st'.isRecording /\ st'.error # "none"
            /\ st'.duration = st.duration /\ st'.transcript = st.transcript
            /\ st'.highlights = st.highlights
       /\ (last.op = "started" /\ last'.op = "error") =>
            \A k \in 1..Len(engines), err \in FatalErrors :
              onerror(k, err) => ~st'.isRecording /\ st'.error # "none"
       /\ last'.op = "started" =>
            st'.isRecording /\ ~st'.isPaused /\ st'.error = "none"
              /\ ~st'.permissionDenied]_vars

\* C21: in an environment without speech recognition or without microphone
\* access an error reason is set from the mount on, and no start request
\* acquires a microphone, creates an engine or makes the session record.
C21_UnsupportedNeverStarts ==
  ~st.isSupported =>
    /\ st.error # "none" /\ ~st.isRecording
    /\ pendingStarts = <<>> /\ streams = <<>> /\ engines = <<>>

\* C21 witness: a start request has been made in such an environment
C21_Witness == ~st.isSupported /\ last.op = "startRefused"

\* Nothing acquired is still held: no live stream, no open audio context, no
\* running engine, no scheduled frame, no timer
AllReleased ==
  /\ \A i \in 1..Len(streams) : streams[i] # "live"
  /\ \A c \in 1..Len(contexts) : contexts[c].state = "closed"
  /\ \A k \in 1..Len(engines) : ~EngineRunning(k)
  /\ ~SamplingScheduled
  /\ ~(mounted /\ TimerRunning(st))

\* C22: right after stop(), right after the unmount, and right after a start
\* that failed once the microphone was acquired, nothing acquired is held.
C22_EveryExitReleasesAll ==
  (\/ last.op \in {"stop", "save", "unmount"}
   \/ last.op = "startFailed" /\ ~st.isRecording /\ pendingStarts = <<>>)
    => AllReleased

\* C23: no audio context is closed a second time.
C23_ReleasedAtMostOnce == \A c \in 1..Len(contexts) : contexts[c].closes <= 1

\* C24 as stated: a recorder that is left after stop() has handed a Lecture
\* to onSave.
C24_StopAlwaysYieldsLecture ==
  [][(mounted /\ Stopped /\ ~mounted') => saved' # <<>>]_vars

\* C24 amended: stop() opens the save dialog; a Lecture is handed to onSave
\* exactly by confirming that dialog, and it carries the session's duration,
\* transcript and highlights, also when they are empty.
C24_ConfirmedStopYieldsLecture ==
  [][/\ last'.op = "stop" => st'.showSaveDialog
     /\ last'.op = "save" =>
          /\ st.showSaveDialog /\ Len(saved') = Len(saved) + 1
          /\ saved'[Len(saved')].duration = st.duration
          /\ saved'[Len(saved')].transcript = st.transcript
          /\ saved'[Len(saved')].highlights = st.highlights
     /\ saved' # saved => last'.op = "save"]_vars

\* C24 witness: a Lecture without segments and highlights has been saved
C24_Witness ==
  /\ last.op = "save" /\ Len(saved) = 1
  /\ saved[1].transcript = <<>> /\ saved[1].highlights = <<>>

\* C25: a pause is carried out only from Recording and a resume only from
\* Paused; in Idle and after stop() no step of the pause / resume handler
\* exists, so no such request changes flags, duration, transcript,
\* highlights, interim text or feeds.
C25_NoIllegalTransition ==
  [][/\ last'.op \in {"pause", "pauseFailed"} => mounted /\ Recording
     /\ last'.op \in {"resume", "resumeFailed"} => mounted /\ Paused
     /\ (mounted /\ ~st.isRecording) =>
          \A data \in AudioSnapshots : ~handlePauseResume(data)]_vars

\* C25 witness: a session stopped while paused, its dialog cancelled: the
\* paused flag is still set and no pause / resume control is offered
C25_Witness ==
  /\ mounted /\ Stopped /\ ~st.showSaveDialog /\ st.isPaused
  /\ st.transcript # <<>>

\* The lecture stored under an identifier, as a set (empty when none is)
Stored(a, id) == {a.lectures[i] : i \in {j \in 1..Len(a.lectures) : a.lectures[j].id = id}}
StoredIds(a) == {a.lectures[i].id : i \in 1..Len(a.lectures)}

Contains(text, word) ==
  \E i \in 1..Len(text) :
    i + Len(word) - 1 <= Len(text) /\ SubSeq(text, i, i + Len(word) - 1) = word

\* C27: shouldHighlight(text, audioLevel) is true exactly when the text
\* contains one of the 16 keywords, or audioLevel > 80 and the text is longer
\* than 10 characters, or the text contains '!' or '?'.
C27_HighlightExactlyOnTrigger ==
  last.op = "shouldHighlight" =>
    LET text == last.input[1]
        audioLevel == last.input[2]
    IN  last.output[1] =
          (\/ \E keyword \in KeywordSet : Contains(text, keyword)
           \/ audioLevel > 80 /\ Len(text) > 10
           \/ \E i \in 1..Len(text) : text[i] \in {"!", "?"})

\* C27 witness: a text of eleven characters without keyword, '!' and '?' is
\* refused at level 30
C27_Witness ==
  /\ last.op = "shouldHighlight" /\ last.input = <<Filler(11), 30>>
  /\ last.output = <<FALSE>>

\* What generateSummary summarises: the trimmed first sentence, or the whole
\* text when that is empty
Summarised(text) ==
  LET firstSentence == trim(firstPiece(text))
  IN  IF firstSentence # <<>> THEN firstSentence ELSE text

\* C28: generateSummary returns at most 100 characters; when it truncates,
\* the result is the first 97 characters of the piece followed by "...".
C28_SummaryAtMost100 ==
  last.op = "generateSummary" =>
    LET piece == Summarised(last.input[1])
        summary == last.output[1]
    IN  /\ Len(summary) <= 100
        /\ summary # piece =>
             /\ Len(piece) > 100 /\ Len(summary) = 100
             /\ SubSeq(summary, 1, 97) = SubSeq(piece, 1, 97)
             /\ SubSeq(summary, 98, 100) = <<".", ".", ".">>

\* C28 witness: a first sentence of 101 characters has been truncated
C28_Witness ==
  /\ last.op = "generateSummary"
  /\ Len(Summarised(last.input[1])) = 101 /\ Len(last.output[1]) = 100

\* The words extractKeywords' scan has found, in the order it found them
Discovered(text) == ExtractFrom(text, splitWhitespace(text), 1, <<>>)
FirstFound(found, word) ==
  CHOOSE i \in 1..Len(found) : found[i] = word /\ \A j \in 1..(i - 1) : found[j] # word

\* C29: extractKeywords returns at most 5 entries, each a token of the text
\* stripped of punctuation and of length at least 2, no entry twice, in the
\* order in which the scan first found them.
C29_KeywordsBoundedDistinctOrdered ==
  last.op = "extractKeywords" =>
    LET text == last.input[1]
        keywords == last.output[1]
        tokens == splitWhitespace(text)
        found == Discovered(text)
    IN  /\ Len(keywords) <= 5
        /\ \A i \in 1..Len(keywords) :
             /\ Len(keywords[i]) >= 2
             /\ \A c \in 1..Len(keywords[i]) : keywords[i][c] \notin StripPunctuation
             /\ \E t \in 1..Len(tokens) : cleanWord(tokens[t]) = keywords[i]
             /\ \E f \in 1..Len(found) : found[f] = keywords[i]
        /\ \A i, j \in 1..Len(keywords) :
             i < j => /\ keywords[i] # keywords[j]
                      /\ FirstFound(found, keywords[i]) < FirstFound(found, keywords[j])

\* C29 witness: a scan that found more than five words, one of them twice,
\* has returned five
C29_Witness ==
  /\ last.op = "extractKeywords" /\ Len(last.output[1]) = 5
  /\ Len(Discovered(last.input[1])) > 5
  /\ \E i, j \in 1..Len(Discovered(last.input[1])) :
       i # j /\ Discovered(last.input[1])[i] = Discovered(last.input[1])[j]

\* The final text of the scenario has just been handled: one flagged segment
\* holding it, one Highlight of it, no interim text
ScenarioDelivered ==
  /\ Len(st.transcript) = 1
  /\ st.transcript[1].text = ScenarioFinal /\ st.transcript[1].isHighlight
  /\ Len(st.highlights) = 1 /\ st.highlights[1].text = ScenarioFinal
  /\ st.currentText = <<>>

\* C30 as stated: after the interim and the final text the transcript is the
\* one flagged segment, there is one Highlight, its keywords include
\* "beop-chik-eun", and the interim text is empty.
C30_ScenarioKeywordsIncludeLaw ==
  (last.op = "result" /\ last.final = ScenarioFinal) =>
    /\ ScenarioDelivered
    /\ \E i \in 1..Len(st.highlights[1].keywords) :
         st.highlights[1].keywords[i] = <<"beop", "chik", "eun">>

\* C30 amended: the same, and the Highlight has no keywords.
C30_ScenarioWithoutKeywords ==
  (last.op = "result" /\ last.final = ScenarioFinal) =>
    /\ ScenarioDelivered
    /\ st.highlights[1].keywords = <<>>

\* C30 witness: the final text has arrived while the interim text was shown
C30_Witness ==
  /\ last.op = "result" /\ last.final = ScenarioFinal /\ last.shownBefore
  /\ ScenarioDelivered

\* C31: from stop() until the save nothing is added to the session, and the
\* Lecture handed to onSave has the session's duration, transcript and
\* highlights, the supplied title or a default, and the supplied presenter
\* or none.
C31_LectureIsSessionAtStop ==
  [][/\ (mounted /\ Stopped /\ st.showSaveDialog /\ last'.op # "save") =>
          /\ st'.duration = st.duration
          /\ st'.transcript = st.transcript
          /\ st'.highlights = st.highlights
     /\ last'.op = "save" =>
          LET lecture == saved'[Len(saved')]
          IN  /\ lecture.duration = st.duration
              /\ lecture.transcript = st.transcript
              /\ lecture.highlights = st.highlights
              /\ lecture.title \in {"t", "default-title"}
              /\ lecture.professor \in {"t", "undefined"}]_vars

\* A piece as the summary shows it: cut to 97 characters and "..." when it
\* is longer than 100
Cut(piece) ==
  IF Len(piece) > 100 THEN SubSeq(piece, 1, 97) \o <<".", ".", ".">> ELSE piece

\* The first piece of the text that is not empty once trimmed; the text when
\* there is none
FirstNonEmptyPiece(text) ==
  LET pieces == splitSentences(text)
      filled == {i \in 1..Len(pieces) : trim(pieces[i]) # <<>>}
  IN  IF filled = {} THEN text
      ELSE trim(pieces[CHOOSE i \in filled : \A j \in filled : i <= j])

\* C32 as stated: the summary is made of the first non-empty piece of the
\* text, also when the text begins with '.', '!' or '?'.
C32_SummaryOfFirstNonEmptyPiece ==
  last.op = "generateSummary" =>
    last.output[1] = Cut(FirstNonEmptyPiece(last.input[1]))

\* C32 amended: the summary is made of the first piece when that is not
\* empty once trimmed, and of the whole text otherwise, also when a later
\* piece is not empty.
C32_SummaryOfFirstPieceOrText ==
  last.op = "generateSummary" =>
    LET text == last.input[1]
        first == trim(splitSentences(text)[1])
    IN  last.output[1] = Cut(IF first # <<>> THEN first ELSE text)

\* C32 witness: a text that begins with '.' and goes on with a non-empty
\* piece has been summarised by itself
C32_Witness ==
  /\ last.op = "generateSummary"
  /\ last.input[1] = <<".">> \o Filler(5) /\ last.output[1] = last.input[1]

\* The scan of the tokens by the stated rule: a stripped token of length at
\* least 2 is a candidate when the token before it contains a keyword, or when
\* it occurs at least twice in the text and fewer than 5 distinct candidates
\* have been collected; found holds the distinct candidates in discovery order
RECURSIVE CandidatesFrom(_, _, _, _)
CandidatesFrom(text, tokens, index, found) ==
  IF index > Len(tokens) THEN found
  ELSE
    LET token == cleanWord(tokens[index])
        afterKeyword ==
          index > 1 /\ \E keyword \in KeywordSet : Contains(tokens[index - 1], keyword)
        repeated ==
          /\ Cardinality({i \in 1..Len(text) : MatchAt(text, token, i)}) >= 2
          /\ Len(found) < 5
        candidate == Len(token) >= 2 /\ (afterKeyword \/ repeated)
        known == \E f \in 1..Len(found) : found[f] = token
    IN  CandidatesFrom(text, tokens, index + 1,
                       IF candidate /\ ~known THEN Append(found, token) ELSE found)

\* C33: extractKeywords returns the first 5 distinct candidates of the
\* stated rule, in discovery order.
C33_KeywordsAreFirstFiveCandidates ==
  last.op = "extractKeywords" =>
    LET text == last.input[1]
        candidates == CandidatesFrom(text, splitWhitespace(text), 1, <<>>)
    IN  last.output[1] =
          SubSeq(candidates, 1, IF Len(candidates) < 5 THEN Len(candidates) ELSE 5)

\* C34: the segment timestamps never decrease along the transcript.
C34_TimestampsNonDecreasing ==
  \A i, j \in 1..Len(st.transcript) :
    i < j => st.transcript[i].timestamp <= st.transcript[j].timestamp

\* C35: the audio level the session holds is in the range 0 to 100.
C35_AudioLevelInRange == st.audioLevel \in 0..100

\* C36: at most one microphone stream, one audio context, one recognition
\* engine and one sampling loop are live, and each live one is the one the
\* session's refs hold.
C36_OneOfEachLive ==
  /\ Cardinality({i \in 1..Len(streams) : streams[i] = "live"}) <= 1
  /\ \A c \in 1..Len(contexts) : contexts[c].state = "running" => c = audioContextRef
  /\ \A k \in 1..Len(engines) : EngineRunning(k) => k = recognitionRef
  /\ orphanFrames = 0

\* C37: isPaused implies isRecording.
C37_PausedImpliesRecording == st.isPaused => st.isRecording

\* C38: every lecture that was in the store when the App mounted is in the
\* store, unless its delete was requested.
C38_StoreKeepsPersistedLectures ==
  \A id \in app.persisted \ app.deleteRequested :
    \E i \in 1..Len(app.store) : app.store[i].id = id

====
